---- MODULE Spec2Model ----
(***************************************************************************)
(* Model of the indexed d-ary priority queue of                            *)
(* internal/priorityQueue/priorityQueue.go, of the pointer-based queue of  *)
(* internal/priorityQueue/priorityQueueByLinkedList, of the Bloom filter   *)
(* of internal/bloomFilter and of the treap of internal/treap.             *)
(*                                                                         *)
(* Storage positions are 0-based as in the Go code; the sequence `pairs`   *)
(* is 1-based in TLA+, so At/SetAt translate.  float32 priorities are      *)
(* modelled by the integers of Priorities (no NaN, no rounding is          *)
(* involved in any comparison the code makes).                             *)
(***************************************************************************)
EXTENDS Integers, Sequences, FiniteSets, TLC

VARIABLES pairs, indexMap, sizeD, last, step, bloomFilter, linkedQueue, linkedLast, treap

vars == <<pairs, indexMap, sizeD, last, step, bloomFilter, linkedQueue, linkedLast, treap>>

(***************************************************************************)
(* Bounds of the model.                                                    *)
(***************************************************************************)
NumValues == 4

ValueNames == <<"A", "B", "C", "D", "E", "F">>

Values == {ValueNames[i] : i \in 1..NumValues}

Priorities == {1, 2, 3}

\* The priorities the scenario of the specification's section 8 uses.
ScenarioPriorities == {5, 8, 10, 20}

\* Branching factors handed to NewPriorityQueue (1 exercises the clamp).
DChoices == {1, 2, 3}

\* Bounds of the specification SpecDup: Insert may repeat a stored value.
MaxDupLen == 4

DupValues == {"A", "B"}

\* Bounds of the specification SpecShape: longer storage, more branching
\* factors, two priorities.
MaxShapeLen == 6

MaxD == 4

ShapeNames == <<"v1", "v2", "v3", "v4", "v5", "v6", "v7", "v8", "v9">>

ShapePriorities == {1, 2}

ShapeDChoices == (-1)..MaxD

Capacities == {-3, -1, 0, 2}

\* Bounds of the specification SpecBloom: filters for 1..MaxN elements, the
\* first NumKeys keys of KeyNames.
MaxN == 3

NumKeys == 5

\* Bounds of the specification SpecBoth.
BothValues == {"A", "B", "C"}

BothPriorities == {1, 2}

\* Bounds of the specification SpecLinked.
MaxLinkedLen == 5

LinkedValues == {"A", "B"}

\* Bounds of the specification SpecTreap.
NumTreapKeys == 4

TreapPriorities == {1, 2, 3}

\* Bounds of the specification SpecLoops.
MaxLoopLen == 4

LoopPriorities == {1, 2}

(***************************************************************************)
(* Errors and the zero Pair.                                               *)
(***************************************************************************)
ErrElementNotFound == "element not found"

ErrQueueIsEmpty == "queue is empty"

NoErr == "nil"

ZeroPair == [priority |-> 0, value |-> ""]

Pair(p, v) == [priority |-> p, value |-> v]

(***************************************************************************)
(* Go helpers: truncating integer division, slices and maps.               *)
(***************************************************************************)
GoDiv(a, b) == IF a >= 0 THEN a \div b ELSE -((-a) \div b)

At(s, i) == s[i + 1]

SetAt(s, i, e) == [s EXCEPT ![i + 1] = e]

Truncate(s, n) == SubSeq(s, 1, n)

MapPut(m, k, i) == [x \in (DOMAIN m) \cup {k} |-> IF x = k THEN i ELSE m[x]]

MapDelete(m, k) == [x \in (DOMAIN m) \ {k} |-> m[x]]

EmptyMap == [x \in {} |-> 0]

(***************************************************************************)
(* The queue as a value: q = [pairs, indexMap, sizeD].                     *)
(***************************************************************************)
\* The capacity handed to make (lines 18-20).
newCapacity(capacity) == IF capacity < 0 THEN 0 ELSE capacity

\* make([]Pair[T], 0, c) and make(map[T]int, c) panic for c < 0.
MakeErr(c) == IF c < 0 THEN "panic: makeslice: cap out of range" ELSE NoErr

\* NewPriorityQueue without the clamp of d.
NewPriorityQueue_NoClamp(d, capacity) ==
    [pairs |-> <<>>, sizeD |-> d, indexMap |-> EmptyMap]

NewPriorityQueue(d, capacity) ==
    [pairs |-> <<>>, sizeD |-> IF d < 2 THEN 2 ELSE d, indexMap |-> EmptyMap]

getParentIndex(q, parentIndex) == GoDiv(parentIndex - 1, q.sizeD)

firstLeafIndex(q) == GoDiv(Len(q.pairs) - 2, q.sizeD) + 1

isEmpty(q) == Len(q.pairs) = 0

removeLast(q) ==
    LET element == At(q.pairs, Len(q.pairs) - 1)
    IN  [q   |-> [q EXCEPT !.indexMap = MapDelete(q.indexMap, element.value),
                           !.pairs = Truncate(q.pairs, Len(q.pairs) - 1)],
         ret |-> element]

RECURSIVE childScan(_, _, _, _)
childScan(q, i, end, bestIdx) ==
    IF i <= end
    THEN IF At(q.pairs, i).priority > At(q.pairs, bestIdx).priority
         THEN childScan(q, i + 1, end, i)
         ELSE childScan(q, i + 1, end, bestIdx)
    ELSE bestIdx

\* First child position of currentIndex (line 194).
childStart(q, currentIndex) == currentIndex * q.sizeD + 1

\* childEnd with `end := start + q.sizeD` (one position too many).
childEnd_OneTooMany(q, currentIndex) ==
    LET end == childStart(q, currentIndex) + q.sizeD
    IN  IF end >= Len(q.pairs) THEN Len(q.pairs) - 1 ELSE end

\* Last child position of currentIndex, clipped to the storage (lines 198-201).
childEnd(q, currentIndex) ==
    LET end == childStart(q, currentIndex) + q.sizeD - 1
    IN  IF end >= Len(q.pairs) THEN Len(q.pairs) - 1 ELSE end

\* highestPriorityChild returning the first child without scanning the others.
highestPriorityChild_FirstChild(q, currentIndex) ==
    IF childStart(q, currentIndex) >= Len(q.pairs) THEN -1 ELSE childStart(q, currentIndex)

\* The scan with `>=` for `>` (line 206): ties go to the last child.
RECURSIVE childScanGE(_, _, _, _)
childScanGE(q, i, end, bestIdx) ==
    IF i <= end
    THEN IF At(q.pairs, i).priority >= At(q.pairs, bestIdx).priority
         THEN childScanGE(q, i + 1, end, i)
         ELSE childScanGE(q, i + 1, end, bestIdx)
    ELSE bestIdx

highestPriorityChild_TieLast(q, currentIndex) ==
    LET start == childStart(q, currentIndex)
    IN  IF start >= Len(q.pairs)
        THEN -1
        ELSE childScanGE(q, start + 1, childEnd(q, currentIndex), start)

\* Returns bestIdx (-1 when currentIndex has no child); best is pairs[bestIdx].
highestPriorityChild(q, currentIndex) ==
    LET start == childStart(q, currentIndex)
    IN  IF start >= Len(q.pairs)
        THEN -1
        ELSE childScan(q, start + 1, childEnd(q, currentIndex), start)

\* The positions highestPriorityChild compares (lines 194-210).
ExaminedChildren(q, currentIndex) ==
    IF childStart(q, currentIndex) >= Len(q.pairs)
    THEN {}
    ELSE childStart(q, currentIndex)..childEnd(q, currentIndex)

RECURSIVE bubbleUpLoop(_, _, _)
bubbleUpLoop(q, index, current) ==
    LET done == [q EXCEPT !.pairs = SetAt(q.pairs, index, current),
                          !.indexMap = MapPut(q.indexMap, current.value, index)]
    IN  IF index > 0
        THEN LET parentIndex == getParentIndex(q, index)
                 parent == At(q.pairs, parentIndex)
             IN  IF parent.priority < current.priority
                 THEN bubbleUpLoop(
                        [q EXCEPT !.pairs = SetAt(q.pairs, index, parent),
                                  !.indexMap = MapPut(q.indexMap, parent.value, index)],
                        parentIndex, current)
                 ELSE done
        ELSE done

bubbleUpIndex(q, index) == bubbleUpLoop(q, index, At(q.pairs, index))

bubbleUp(q) == bubbleUpIndex(q, Len(q.pairs) - 1)

RECURSIVE pushDownIndex(_, _)
pushDownIndex(q, currentIndex) ==
    IF currentIndex < firstLeafIndex(q)
    THEN LET childIndex == highestPriorityChild(q, currentIndex)
         IN  IF childIndex = -1
             THEN q
             ELSE IF At(q.pairs, childIndex).priority > At(q.pairs, currentIndex).priority
                  THEN LET cur   == At(q.pairs, currentIndex)
                           child == At(q.pairs, childIndex)
                           swapped == SetAt(SetAt(q.pairs, currentIndex, child), childIndex, cur)
                       IN  pushDownIndex(
                             [q EXCEPT !.pairs = swapped,
                                       !.indexMap = MapPut(MapPut(q.indexMap, child.value, currentIndex),
                                                           cur.value, childIndex)],
                             childIndex)
                  ELSE q
    ELSE q

pushDown(q) == pushDownIndex(q, 0)

(***************************************************************************)
(* The public operations, each returning [q, ret, err].                    *)
(***************************************************************************)
\* Top without `q.indexMap[p.value] = 0` (line 52).
Top_NoIndexWrite(q) ==
    IF isEmpty(q)
    THEN [q |-> q, ret |-> ZeroPair, err |-> ErrQueueIsEmpty]
    ELSE LET r == removeLast(q)
             p == r.ret
         IN  IF isEmpty(r.q)
             THEN [q |-> r.q, ret |-> p, err |-> NoErr]
             ELSE LET element == At(r.q.pairs, 0)
                      q1 == [r.q EXCEPT !.pairs = SetAt(r.q.pairs, 0, p)]
                      q2 == pushDown(q1)
                  IN  [q   |-> [q2 EXCEPT !.indexMap = MapDelete(q2.indexMap, element.value)],
                       ret |-> element, err |-> NoErr]

\* Top returning the relocated last entry p instead of the old root.
Top_ReturnsLast(q) ==
    IF isEmpty(q)
    THEN [q |-> q, ret |-> ZeroPair, err |-> ErrQueueIsEmpty]
    ELSE LET r == removeLast(q)
             p == r.ret
         IN  IF isEmpty(r.q)
             THEN [q |-> r.q, ret |-> p, err |-> NoErr]
             ELSE LET element == At(r.q.pairs, 0)
                      q1 == [r.q EXCEPT !.pairs = SetAt(r.q.pairs, 0, p),
                                        !.indexMap = MapPut(r.q.indexMap, p.value, 0)]
                      q2 == pushDown(q1)
                  IN  [q   |-> [q2 EXCEPT !.indexMap = MapDelete(q2.indexMap, element.value)],
                       ret |-> p, err |-> NoErr]

Top(q) ==
    IF isEmpty(q)
    THEN [q |-> q, ret |-> ZeroPair, err |-> ErrQueueIsEmpty]
    ELSE LET r == removeLast(q)
             p == r.ret
         IN  IF isEmpty(r.q)
             THEN [q |-> r.q, ret |-> p, err |-> NoErr]
             ELSE LET element == At(r.q.pairs, 0)
                      q1 == [r.q EXCEPT !.pairs = SetAt(r.q.pairs, 0, p),
                                        !.indexMap = MapPut(r.q.indexMap, p.value, 0)]
                      q2 == pushDown(q1)
                  IN  [q   |-> [q2 EXCEPT !.indexMap = MapDelete(q2.indexMap, element.value)],
                       ret |-> element, err |-> NoErr]

\* Peek returning the zero Pair with a nil error on an empty queue.
Peek_NoEmptyError(q) ==
    IF isEmpty(q)
    THEN [q |-> q, ret |-> ZeroPair, err |-> NoErr]
    ELSE [q |-> q, ret |-> At(q.pairs, 0), err |-> NoErr]

Peek(q) ==
    IF isEmpty(q)
    THEN [q |-> q, ret |-> ZeroPair, err |-> ErrQueueIsEmpty]
    ELSE [q |-> q, ret |-> At(q.pairs, 0), err |-> NoErr]

\* Insert overwriting the priority of a value the index already holds.
Insert_Upsert(q, element, priority) ==
    IF element \in DOMAIN q.indexMap
    THEN LET index == q.indexMap[element]
         IN  [q |-> bubbleUpIndex([q EXCEPT !.pairs = SetAt(q.pairs, index, Pair(priority, element))],
                                  index),
              ret |-> ZeroPair, err |-> NoErr]
    ELSE LET q1 == [q EXCEPT !.pairs = Append(q.pairs, Pair(priority, element)),
                             !.indexMap = MapPut(q.indexMap, element, Len(q.pairs))]
         IN  [q |-> bubbleUp(q1), ret |-> ZeroPair, err |-> NoErr]

Insert(q, element, priority) ==
    LET newPair == Pair(priority, element)
        q1 == [q EXCEPT !.pairs = Append(q.pairs, newPair),
                        !.indexMap = MapPut(q.indexMap, element, Len(q.pairs))]
    IN  [q |-> bubbleUp(q1), ret |-> ZeroPair, err |-> NoErr]

Remove(q, element) ==
    IF element \notin DOMAIN q.indexMap
    THEN [q |-> q, ret |-> ZeroPair, err |-> ErrElementNotFound]
    ELSE LET index == q.indexMap[element]
             lastIndex == Len(q.pairs) - 1
         IN  IF index = lastIndex
             THEN [q |-> [q EXCEPT !.pairs = Truncate(q.pairs, lastIndex),
                                   !.indexMap = MapDelete(q.indexMap, element)],
                   ret |-> ZeroPair, err |-> NoErr]
             ELSE LET removedElement == At(q.pairs, index).value
                      removedPriority == At(q.pairs, index).priority
                      moved == At(q.pairs, lastIndex)
                      m1 == MapPut(q.indexMap, moved.value, index)
                      q1 == [q EXCEPT !.pairs = Truncate(SetAt(q.pairs, index, moved), lastIndex),
                                      !.indexMap = MapDelete(m1, removedElement)]
                  IN  [q   |-> IF moved.priority < removedPriority
                               THEN bubbleUpIndex(q1, index)
                               ELSE IF moved.priority > removedPriority
                                    THEN pushDownIndex(q1, index)
                                    ELSE q1,
                       ret |-> ZeroPair, err |-> NoErr]

\* Update returning nil for a value the index does not hold.
Update_SilentMiss(q, element, newPriority) ==
    IF element \notin DOMAIN q.indexMap
    THEN [q |-> q, ret |-> ZeroPair, err |-> NoErr]
    ELSE LET index == q.indexMap[element]
             oldPriority == At(q.pairs, index).priority
             q1 == [q EXCEPT !.pairs = SetAt(q.pairs, index, Pair(newPriority, element))]
         IN  [q   |-> IF newPriority < oldPriority
                      THEN bubbleUpIndex(q1, index)
                      ELSE IF newPriority > oldPriority
                           THEN pushDownIndex(q1, index)
                           ELSE q1,
              ret |-> ZeroPair, err |-> NoErr]

Update(q, element, newPriority) ==
    IF element \notin DOMAIN q.indexMap
    THEN [q |-> q, ret |-> ZeroPair, err |-> ErrElementNotFound]
    ELSE LET index == q.indexMap[element]
             oldPriority == At(q.pairs, index).priority
             q1 == [q EXCEPT !.pairs = SetAt(q.pairs, index, Pair(newPriority, element))]
         IN  [q   |-> IF newPriority < oldPriority
                      THEN bubbleUpIndex(q1, index)
                      ELSE IF newPriority > oldPriority
                           THEN pushDownIndex(q1, index)
                           ELSE q1,
              ret |-> ZeroPair, err |-> NoErr]

(***************************************************************************)
(* The Bloom filter of internal/bloomFilter.                               *)
(*                                                                         *)
(* A uint32 is the pair <<high, low>> of its 16-bit halves, so that every  *)
(* sum and product below is computed modulo 2^32 as Go computes it.        *)
(* murmur3.SeedSum32 and fnv.New32a are library functions: they are the    *)
(* tables murmur3SeedSum32 and fnv32a over the keys of KeyNames.  The key  *)
(* "in_0" has the values the two functions give it under seed 42; the      *)
(* other keys stand for keys whose hashes lie at the ends of uint32.       *)
(* NewBloomFilter's float64 arithmetic is done in thousandths; fpRate is   *)
(* one of FpRates and n is at least 1 (n = 0 divides 0 by 0).             *)
(***************************************************************************)
Limb == 65536

Zero32 == <<0, 0>>

Max32 == <<65535, 65535>>

FromNat(n) == <<(n \div Limb) % Limb, n % Limb>>

\* a + b in uint32.
add32(a, b) ==
    LET lo == a[2] + b[2]
    IN  <<(a[1] + b[1] + (lo \div Limb)) % Limb, lo % Limb>>

\* j * a in uint32, for the small j of initHashFunctions.
mul32(j, a) ==
    LET lo == j * a[2]
    IN  <<(j * a[1] + (lo \div Limb)) % Limb, lo % Limb>>

\* a % m in uint32, as a natural number.
mod32(a, m) == ((a[1] % m) * (Limb % m) + a[2]) % m

KeyNames == <<"in_0", "lo1", "hi1", "loM", "hiM", "mid", "one">>

Keys == {KeyNames[i] : i \in 1..NumKeys}

BloomSeed == 42

murmur3SeedSum32(seed, key) ==
    CASE key = "in_0" -> <<17882, 58625>>
      [] key = "lo1"  -> Zero32
      [] key = "hi1"  -> Max32
      [] key = "loM"  -> Zero32
      [] key = "hiM"  -> Max32
      [] key = "mid"  -> <<32768, 0>>
      [] key = "one"  -> <<0, 1>>

fnv32a(key) ==
    CASE key = "in_0" -> <<22060, 27737>>
      [] key = "lo1"  -> <<0, 1>>
      [] key = "hi1"  -> <<0, 1>>
      [] key = "loM"  -> Max32
      [] key = "hiM"  -> Max32
      [] key = "mid"  -> <<32767, 65535>>
      [] key = "one"  -> Zero32

FpRates == {"0.01", "0.5", "0.9"}

\* math.Abs(math.Log(fpRate)), in thousandths.
AbsLogMilli(fpRate) ==
    CASE fpRate = "0.01" -> 4605
      [] fpRate = "0.5"  -> 693
      [] fpRate = "0.9"  -> 105

\* math.Ln2, in thousandths.
Ln2Milli == 693

\* One closure of initHashFunctions is the pair of what it captures.
initHashFunctions(k, numBits) == [i \in 1..k |-> [j |-> i - 1, numBits |-> numBits]]

hashFunction_NoWrap(hf, h1, h2) ==
    LET lo == h1[2] + hf.j * h2[2] + hf.j * hf.j
        hi == h1[1] + hf.j * h2[1] + (lo \div Limb)
    IN  ((hi % hf.numBits) * (Limb % hf.numBits) + (lo % Limb)) % hf.numBits

hashFunction(hf, h1, h2) ==
    mod32(add32(add32(h1, mul32(hf.j, h2)), FromNat(hf.j * hf.j)), hf.numBits)

NewBloomFilter(n, fpRate, seed) ==
    LET a == n * AbsLogMilli(fpRate) * 1000
        b == Ln2Milli * Ln2Milli
        numBits == (a + b - 1) \div b
        r == (2 * numBits * Ln2Milli + n * 1000) \div (2 * n * 1000)
        k == IF r < 1 THEN 1 ELSE r
        byteLen == (numBits + 7) \div 8
    IN  [ maxSize |-> n, seed |-> seed, numBits |-> numBits,
          bitsArray |-> [i \in 1..byteLen |-> 0],
          numHashFunctions |-> k,
          hashFunctions |-> initHashFunctions(k, numBits) ]

\* The state of a program that has built no filter.
NoBloomFilter ==
    [ maxSize |-> 0, seed |-> 0, numBits |-> 0, bitsArray |-> <<>>,
      numHashFunctions |-> 0, hashFunctions |-> <<>> ]

findBitCoordinates(index) == [byteIndex |-> index \div 8, bitOffset |-> index % 8]

\* 1 << bit
Shl1(bit) == 2 ^ bit

\* (byte & (1 << bit)) != 0
BitSet(byte, bit) == (byte \div Shl1(bit)) % 2 = 1

readBit(bitsArray, index) ==
    LET c == findBitCoordinates(index)
    IN  BitSet(At(bitsArray, c.byteIndex), c.bitOffset)

writeBit_Assign(bitsArray, index) ==
    LET c == findBitCoordinates(index)
    IN  SetAt(bitsArray, c.byteIndex, Shl1(c.bitOffset))

writeBit(bitsArray, index) ==
    LET c == findBitCoordinates(index)
        byte == At(bitsArray, c.byteIndex)
    IN  SetAt(bitsArray, c.byteIndex,
              IF BitSet(byte, c.bitOffset) THEN byte ELSE byte + Shl1(c.bitOffset))

key2Positions(b, key) ==
    LET h1 == murmur3SeedSum32(b.seed, key)
        h2 == fnv32a(key)
    IN  [ i \in 1..b.numHashFunctions |->
            IF i <= Len(b.hashFunctions)
            THEN hashFunction(b.hashFunctions[i], h1, h2)
            ELSE 0 ]

RECURSIVE writeBits(_, _, _)
writeBits(bitsArray, pos, i) ==
    IF i > Len(pos) THEN bitsArray
    ELSE writeBits(writeBit(bitsArray, pos[i]), pos, i + 1)

BloomInsert(b, value) ==
    [b EXCEPT !.bitsArray = writeBits(b.bitsArray, key2Positions(b, value), 1)]

Contains(b, value) ==
    LET pos == key2Positions(b, value)
    IN  \A i \in 1..Len(pos) : readBit(b.bitsArray, pos[i])

(***************************************************************************)
(* The pointer-based queue of priorityQueueByLinkedList/priorityQueue.go.  *)
(*                                                                         *)
(* p = [root, sizeD, size, nodes]: a *Node is a key of `nodes` (Nil is the *)
(* nil pointer), `nodes` holds the Node structs that can be reached from   *)
(* root.  Positions are 1-based as in the Go code; childes is indexed from *)
(* 0 in Go and read with At/SetAt.                                         *)
(***************************************************************************)
ErrEmpty == "priorityQueue: is empty"

ErrNotFound == "priorityQueue: node not found"

Nil == 0

NoNodes == [n \in {} |-> 0]

LinkedNewPriorityQueue(d) ==
    [root |-> Nil, sizeD |-> IF d < 2 THEN 2 ELSE d, size |-> 0, nodes |-> NoNodes]

\* &Node[T]{...}: the address of a Node that is not in use.
NewNode(p) ==
    LET free == (1..(Cardinality(DOMAIN p.nodes) + 1)) \ DOMAIN p.nodes
    IN  CHOOSE n \in free : \A o \in free : n <= o

Reverse(path) == [i \in 1..Len(path) |-> path[Len(path) + 1 - i]]

RECURSIVE pathLoop(_, _, _)
pathLoop(p, m, path) ==
    IF m > 0
    THEN pathLoop(p, GoDiv(m - 1, p.sizeD), Append(path, (m - 1) % p.sizeD))
    ELSE path

pathTo(p, index) ==
    IF index <= 1 THEN <<>> ELSE Reverse(pathLoop(p, index - 1, <<>>))

RECURSIVE followPath(_, _, _, _)
followPath(p, n, path, i) ==
    IF i > Len(path) THEN n
    ELSE IF n = Nil THEN Nil
    ELSE followPath(p, At(p.nodes[n].childes, path[i]), path, i + 1)

nodeAt(p, index) ==
    IF p.root = Nil \/ index < 1 \/ index > p.size THEN Nil
    ELSE followPath(p, p.root, pathTo(p, index), 1)

insertionParentAndIdx(p, index) ==
    LET path == pathTo(p, index)
    IN  [ parent |-> followPath(p, p.root, SubSeq(path, 1, Len(path) - 1), 1),
          childIdx |-> path[Len(path)] ]

SwapPairs(p, a, b) ==
    [p EXCEPT !.nodes = [p.nodes EXCEPT ![a].pair = p.nodes[b].pair,
                                        ![b].pair = p.nodes[a].pair]]

RECURSIVE bubbleUpNode(_, _)
bubbleUpNode(p, n) ==
    LET parent == p.nodes[n].parent
    IN  IF parent /= Nil /\ p.nodes[n].pair.priority > p.nodes[parent].pair.priority
        THEN bubbleUpNode(SwapPairs(p, n, parent), parent)
        ELSE p

RECURSIVE bestChild(_, _, _, _)
bestChild(p, n, i, best) ==
    IF i >= Len(p.nodes[n].childes) THEN best
    ELSE LET ch == At(p.nodes[n].childes, i)
         IN  IF ch = Nil THEN bestChild(p, n, i + 1, best)
             ELSE IF best = Nil \/ p.nodes[ch].pair.priority > p.nodes[best].pair.priority
                  THEN bestChild(p, n, i + 1, ch)
                  ELSE bestChild(p, n, i + 1, best)

RECURSIVE pushDownNode(_, _)
pushDownNode(p, n) ==
    LET best == bestChild(p, n, 0, Nil)
    IN  IF best = Nil \/ p.nodes[best].pair.priority <= p.nodes[n].pair.priority
        THEN p
        ELSE pushDownNode(SwapPairs(p, n, best), best)

LinkedPushDownIndex(p, currentIndex) ==
    LET n == nodeAt(p, currentIndex)
    IN  IF n = Nil THEN p ELSE pushDownNode(p, n)

\* detachLast without line 269 (parent.childes[childIdx] = nil).
detachLast_KeepSlot(p) ==
    IF p.size = 0 THEN p
    ELSE IF p.size = 1 THEN [p EXCEPT !.root = Nil, !.size = 0, !.nodes = NoNodes]
    ELSE [p EXCEPT !.size = p.size - 1]

detachLast(p) ==
    IF p.size = 0 THEN p
    ELSE IF p.size = 1 THEN [p EXCEPT !.root = Nil, !.size = 0, !.nodes = NoNodes]
    ELSE LET pc == insertionParentAndIdx(p, p.size)
             detached == At(p.nodes[pc.parent].childes, pc.childIdx)
             cut == [p.nodes EXCEPT ![pc.parent].childes = SetAt(@, pc.childIdx, Nil)]
         IN  [p EXCEPT !.size = p.size - 1,
                       !.nodes = [n \in (DOMAIN cut) \ {detached} |-> cut[n]]]

LinkedTop(p) ==
    IF p.root = Nil THEN [q |-> p, ret |-> ZeroPair, err |-> ErrEmpty]
    ELSE LET maxPair == p.nodes[p.root].pair
         IN  IF p.size = 1
             THEN [q |-> [p EXCEPT !.root = Nil, !.size = 0, !.nodes = NoNodes],
                   ret |-> maxPair, err |-> NoErr]
             ELSE LET lastNode == nodeAt(p, p.size)
                      p1 == [p EXCEPT !.nodes[p.root].pair = p.nodes[lastNode].pair]
                  IN  [q |-> LinkedPushDownIndex(detachLast(p1), 1),
                       ret |-> maxPair, err |-> NoErr]

LinkedPeek(p) ==
    IF p.root = Nil THEN [q |-> p, ret |-> ZeroPair, err |-> ErrEmpty]
    ELSE [q |-> p, ret |-> p.nodes[p.root].pair, err |-> NoErr]

LinkedInsert(p, element, priority) ==
    LET newPair == Pair(priority, element)
        p1 == [p EXCEPT !.size = p.size + 1]
        node == NewNode(p)
        noChildes == [i \in 1..p.sizeD |-> Nil]
    IN  IF p.root = Nil
        THEN [q |-> [p1 EXCEPT !.root = node,
                               !.nodes = MapPut(p.nodes, node,
                                                [childes |-> noChildes, parent |-> Nil,
                                                 pair |-> newPair])],
              ret |-> ZeroPair, err |-> NoErr]
        ELSE LET pc == insertionParentAndIdx(p1, p1.size)
                 added == MapPut(p.nodes, node,
                                 [childes |-> noChildes, parent |-> pc.parent,
                                  pair |-> newPair])
                 linked == [added EXCEPT ![pc.parent].childes = SetAt(@, pc.childIdx, node)]
             IN  [q |-> bubbleUpNode([p1 EXCEPT !.nodes = linked], node),
                  ret |-> ZeroPair, err |-> NoErr]

\* The loop of Remove and of Update: the first position holding element
\* (0 when there is none).
findIndex(p, element) ==
    LET hits == {i \in 1..p.size :
                    /\ nodeAt(p, i) /= Nil
                    /\ p.nodes[nodeAt(p, i)].pair.value = element}
    IN  IF hits = {} THEN 0 ELSE CHOOSE i \in hits : \A o \in hits : i <= o

LinkedRemove(p, element) ==
    IF p.size = 0 THEN [q |-> p, ret |-> ZeroPair, err |-> ErrEmpty]
    ELSE LET targetIdx == findIndex(p, element)
             target == nodeAt(p, targetIdx)
         IN  IF target = Nil THEN [q |-> p, ret |-> ZeroPair, err |-> ErrNotFound]
             ELSE IF p.size = 1
             THEN [q |-> [p EXCEPT !.root = Nil, !.size = 0, !.nodes = NoNodes],
                   ret |-> ZeroPair, err |-> NoErr]
             ELSE IF targetIdx = p.size
             THEN [q |-> detachLast(p), ret |-> ZeroPair, err |-> NoErr]
             ELSE LET lastNode == nodeAt(p, p.size)
                      oldPriority == p.nodes[target].pair.priority
                      p1 == detachLast([p EXCEPT !.nodes[target].pair = p.nodes[lastNode].pair])
                  IN  [q |-> IF p1.nodes[target].pair.priority > oldPriority
                             THEN bubbleUpNode(p1, target)
                             ELSE pushDownNode(p1, target),
                       ret |-> ZeroPair, err |-> NoErr]

LinkedUpdate(p, element, newPriority) ==
    IF p.size = 0 THEN [q |-> p, ret |-> ZeroPair, err |-> ErrEmpty]
    ELSE LET node == nodeAt(p, findIndex(p, element))
         IN  IF node = Nil THEN [q |-> p, ret |-> ZeroPair, err |-> ErrNotFound]
             ELSE LET old == p.nodes[node].pair.priority
                      p1 == [p EXCEPT !.nodes[node].pair.priority = newPriority]
                  IN  [q |-> IF newPriority > old THEN bubbleUpNode(p1, node)
                             ELSE IF newPriority < old THEN pushDownNode(p1, node)
                             ELSE p1,
                       ret |-> ZeroPair, err |-> NoErr]

(***************************************************************************)
(* The treap of internal/treap/treap.go.                                   *)
(*                                                                         *)
(* t = [root, nodes]: a *Node is a key of `nodes` (Nil is the nil          *)
(* pointer), `nodes` holds the Node structs in use.  Keys are the integers *)
(* 1..NumTreapKeys.  NewNode(key, priority) is given the address `key`:    *)
(* Insert is called with keys that are not in the tree, so that address is *)
(* free.  Results are [t, ret, err].                                       *)
(***************************************************************************)
ErrNilNode == "treap: nil node"

ErrNoParent == "treap: node has no parent"

ErrNotLeftChild == "treap: node is not left child"

ErrNotRightChild == "treap: node is not right child"

TreapErrNotFound == "treap: node not found"

ErrRemoveFailed == "treap: remove failed"

NewTreap == [root |-> Nil, nodes |-> NoNodes]

TreapNewNode(key, priority) ==
    [key |-> key, priority |-> priority, left |-> Nil, right |-> Nil, parent |-> Nil]

setLeft(t, n, node) ==
    LET t1 == [t EXCEPT !.nodes[n].left = node]
    IN  IF node /= Nil THEN [t1 EXCEPT !.nodes[node].parent = n] ELSE t1

setRight(t, n, node) ==
    LET t1 == [t EXCEPT !.nodes[n].right = node]
    IN  IF node /= Nil THEN [t1 EXCEPT !.nodes[node].parent = n] ELSE t1

isRoot(t, x) == t.root = x

isLeaf(t, n) == t.nodes[n].left = Nil /\ t.nodes[n].right = Nil

rightRotate(t, x) ==
    IF x = Nil THEN [t |-> t, err |-> ErrNilNode]
    ELSE IF isRoot(t, x) THEN [t |-> t, err |-> ErrNoParent]
    ELSE LET y == t.nodes[x].parent
         IN  IF y = Nil THEN [t |-> t, err |-> ErrNoParent]
             ELSE IF t.nodes[y].left /= x THEN [t |-> t, err |-> ErrNotLeftChild]
             ELSE LET p == t.nodes[y].parent
                      t1 == IF isRoot(t, y)
                            THEN [t EXCEPT !.root = x, !.nodes[x].parent = Nil]
                            ELSE IF t.nodes[p].left = y THEN setLeft(t, p, x)
                            ELSE setRight(t, p, x)
                      t2 == setLeft(t1, y, t1.nodes[x].right)
                  IN  [t |-> setRight(t2, x, y), err |-> NoErr]

leftRotate(t, x) ==
    IF x = Nil THEN [t |-> t, err |-> ErrNilNode]
    ELSE IF isRoot(t, x) THEN [t |-> t, err |-> ErrNoParent]
    ELSE LET y == t.nodes[x].parent
         IN  IF y = Nil THEN [t |-> t, err |-> ErrNoParent]
             ELSE IF t.nodes[y].right /= x THEN [t |-> t, err |-> ErrNotRightChild]
             ELSE LET p == t.nodes[y].parent
                      t1 == IF p /= Nil
                            THEN IF t.nodes[p].left = y THEN setLeft(t, p, x)
                                 ELSE setRight(t, p, x)
                            ELSE [t EXCEPT !.root = x, !.nodes[x].parent = Nil]
                      t2 == setRight(t1, y, t1.nodes[x].left)
                  IN  [t |-> setLeft(t2, x, y), err |-> NoErr]

\* Lines 127-136: the node under which key is hung.
RECURSIVE insertionParent(_, _, _, _)
insertionParent(t, key, node, parent) ==
    IF node = Nil THEN parent
    ELSE IF key < t.nodes[node].key
         THEN insertionParent(t, key, t.nodes[node].left, node)
         ELSE insertionParent(t, key, t.nodes[node].right, node)

\* Lines 144-154 and 238-248: node is rotated up while its priority is lower
\* than its parent's.
RECURSIVE rotateUp(_, _)
rotateUp(t, node) ==
    LET parent == t.nodes[node].parent
    IN  IF parent /= Nil /\ t.nodes[node].priority < t.nodes[parent].priority
        THEN LET r == IF node = t.nodes[parent].left THEN rightRotate(t, node)
                      ELSE leftRotate(t, node)
             IN  IF r.err /= NoErr THEN r ELSE rotateUp(r.t, node)
        ELSE [t |-> t, err |-> NoErr]

TreapInsert(t, key, priority) ==
    LET newNode == key
        t0 == [t EXCEPT !.nodes = MapPut(t.nodes, newNode, TreapNewNode(key, priority))]
    IN  IF t.root = Nil
        THEN [t |-> [t0 EXCEPT !.root = newNode], ret |-> 0, err |-> NoErr]
        ELSE LET parent == insertionParent(t0, key, t0.root, Nil)
                 t1 == IF key < t0.nodes[parent].key THEN setLeft(t0, parent, newNode)
                       ELSE setRight(t0, parent, newNode)
                 r == rotateUp(t1, newNode)
             IN  IF r.err /= NoErr THEN [t |-> r.t, ret |-> 0, err |-> r.err]
                 ELSE [t |-> IF r.t.nodes[newNode].parent = Nil
                             THEN [r.t EXCEPT !.root = newNode] ELSE r.t,
                       ret |-> 0, err |-> NoErr]

\* Lines 163-170.
RECURSIVE findNode(_, _, _)
findNode(t, node, key) ==
    IF node /= Nil /\ t.nodes[node].key /= key
    THEN IF key < t.nodes[node].key THEN findNode(t, t.nodes[node].left, key)
         ELSE findNode(t, t.nodes[node].right, key)
    ELSE node

\* Lines 175-185: node is rotated down until it is a leaf.
RECURSIVE rotateToLeaf(_, _)
rotateToLeaf(t, node) ==
    IF isLeaf(t, node) THEN [t |-> t, err |-> NoErr]
    ELSE LET left == t.nodes[node].left
             right == t.nodes[node].right
             r == IF left /= Nil /\ (right = Nil
                                     \/ t.nodes[left].priority <= t.nodes[right].priority)
                  THEN rightRotate(t, left)
                  ELSE leftRotate(t, right)
         IN  IF r.err /= NoErr THEN r ELSE rotateToLeaf(r.t, node)

TreapRemove(t, key) ==
    LET node == findNode(t, t.root, key)
    IN  IF node = Nil THEN [t |-> t, ret |-> FALSE, err |-> NoErr]
        ELSE LET r == rotateToLeaf(t, node)
             IN  IF r.err /= NoErr THEN [t |-> r.t, ret |-> FALSE, err |-> NoErr]
                 ELSE LET parent == r.t.nodes[node].parent
                      IN  IF parent = Nil
                          THEN [t |-> [root |-> Nil, nodes |-> MapDelete(r.t.nodes, node)],
                                ret |-> TRUE, err |-> NoErr]
                          ELSE LET t1 == IF r.t.nodes[parent].left = node
                                         THEN [r.t EXCEPT !.nodes[parent].left = Nil]
                                         ELSE [r.t EXCEPT !.nodes[parent].right = Nil]
                               IN  [t |-> [t1 EXCEPT !.nodes = MapDelete(t1.nodes, node)],
                                    ret |-> TRUE, err |-> NoErr]

TreapTop(t) ==
    IF t.root = Nil THEN [t |-> t, ret |-> 0, err |-> ErrNilNode]
    ELSE LET key == t.nodes[t.root].key
             r == TreapRemove(t, key)
         IN  IF ~r.ret THEN [t |-> r.t, ret |-> 0, err |-> ErrRemoveFailed]
             ELSE [t |-> r.t, ret |-> key, err |-> NoErr]

TreapPeek(t) ==
    IF t.root = Nil THEN [t |-> t, ret |-> 0, err |-> ErrNilNode]
    ELSE [t |-> t, ret |-> t.nodes[t.root].key, err |-> NoErr]

RECURSIVE Search(_, _, _)
Search(t, n, targetKey) ==
    IF n = Nil THEN Nil
    ELSE IF t.nodes[n].key = targetKey THEN n
    ELSE IF targetKey < t.nodes[n].key THEN Search(t, t.nodes[n].left, targetKey)
    ELSE Search(t, t.nodes[n].right, targetKey)

\* Lines 250-265: node is rotated down while a child has a lower priority.
RECURSIVE rotateDown_LeftFirst(_, _)
rotateDown_LeftFirst(t, node) ==
    LET left == t.nodes[node].left
        right == t.nodes[node].right
        leftOK == left /= Nil /\ t.nodes[left].priority < t.nodes[node].priority
        rightOK == right /= Nil /\ t.nodes[right].priority < t.nodes[node].priority
    IN  IF leftOK
        THEN LET r == rightRotate(t, left)
             IN  IF r.err /= NoErr THEN r ELSE rotateDown_LeftFirst(r.t, node)
        ELSE IF rightOK
        THEN LET r == leftRotate(t, right)
             IN  IF r.err /= NoErr THEN r ELSE rotateDown_LeftFirst(r.t, node)
        ELSE [t |-> t, err |-> NoErr]

RECURSIVE rotateDown(_, _)
rotateDown(t, node) ==
    LET left == t.nodes[node].left
        right == t.nodes[node].right
        leftOK == left /= Nil /\ t.nodes[left].priority < t.nodes[node].priority
        rightOK == right /= Nil /\ t.nodes[right].priority < t.nodes[node].priority
    IN  IF leftOK /\ (~rightOK \/ t.nodes[left].priority <= t.nodes[right].priority)
        THEN LET r == rightRotate(t, left)
             IN  IF r.err /= NoErr THEN r ELSE rotateDown(r.t, node)
        ELSE IF rightOK
        THEN LET r == leftRotate(t, right)
             IN  IF r.err /= NoErr THEN r ELSE rotateDown(r.t, node)
        ELSE [t |-> t, err |-> NoErr]

TreapUpdate(t, key, priority) ==
    IF t.root = Nil THEN [t |-> t, ret |-> 0, err |-> ErrNilNode]
    ELSE LET node == Search(t, t.root, key)
         IN  IF node = Nil THEN [t |-> t, ret |-> 0, err |-> TreapErrNotFound]
             ELSE IF t.nodes[node].priority = priority
             THEN [t |-> t, ret |-> 0, err |-> NoErr]
             ELSE LET old == t.nodes[node].priority
                      t1 == [t EXCEPT !.nodes[node].priority = priority]
                      r == IF priority < old THEN rotateUp(t1, node)
                           ELSE rotateDown(t1, node)
                  IN  [t |-> r.t, ret |-> 0, err |-> r.err]

(***************************************************************************)
(* State machine: one queue, one caller, one call per step.                *)
(* `last` records the call just made and what it returned; `step` counts   *)
(* how far the calls made so far follow Scenario (-1: they do not).        *)
(***************************************************************************)
Q == [pairs |-> pairs, sizeD |-> sizeD, indexMap |-> indexMap]

StoredValues(q) == {q.pairs[i].value : i \in 1..Len(q.pairs)}

Call(name, v, p) == [name |-> name, value |-> v, priority |-> p]

\* What the pointer-based queue returned to the call of `last`.
NoLinkedCall == [ret |-> ZeroPair, err |-> NoErr]

\* No Bloom filter has been built, the pointer-based queue and the treap
\* are not used.
ArrayQueueOnly ==
    /\ bloomFilter = NoBloomFilter
    /\ linkedQueue = LinkedNewPriorityQueue(sizeD)
    /\ linkedLast = NoLinkedCall
    /\ treap = NewTreap

Scenario ==
    << Call("Insert", "A", 10), Call("Insert", "B", 5), Call("Insert", "C", 8),
       Call("Update", "B", 20), Call("Remove", "A", 0),
       Call("Top", "", 0), Call("Top", "", 0) >>

NextStep(call) ==
    IF call.name = "Peek" THEN step
    ELSE IF step >= 0 /\ step < Len(Scenario) /\ call = Scenario[step + 1]
         THEN step + 1
         ELSE -1

Apply(call, r) ==
    /\ pairs' = r.q.pairs
    /\ indexMap' = r.q.indexMap
    /\ sizeD' = r.q.sizeD
    /\ last' = [op |-> call, ret |-> r.ret, err |-> r.err]
    /\ step' = NextStep(call)
    /\ UNCHANGED <<bloomFilter, linkedQueue, linkedLast, treap>>

Init ==
    \E d \in DChoices :
        LET q == NewPriorityQueue(d, 0)
        IN  /\ pairs = q.pairs
            /\ indexMap = q.indexMap
            /\ sizeD = q.sizeD
            /\ last = [op |-> Call("New", "", 0), ret |-> ZeroPair, err |-> NoErr]
            /\ step = -1
            /\ ArrayQueueOnly

InsertWith(P) ==
    \E v \in Values \ StoredValues(Q), p \in P :
        Apply(Call("Insert", v, p), Insert(Q, v, p))

UpdateWith(P) ==
    \E v \in Values, p \in P : Apply(Call("Update", v, p), Update(Q, v, p))

InsertAct == InsertWith(Priorities)

TopAct == Apply(Call("Top", "", 0), Top(Q))

PeekAct == Apply(Call("Peek", "", 0), Peek(Q))

RemoveAct == \E v \in Values : Apply(Call("Remove", v, 0), Remove(Q, v))

UpdateAct == UpdateWith(Priorities)

Next == InsertAct \/ TopAct \/ PeekAct \/ RemoveAct \/ UpdateAct

Spec == Init /\ [][Next]_vars

(***************************************************************************)
(* The same queue with d = 2 and the scenario's priorities; `step` follows *)
(* the calls of Scenario from the empty queue.                             *)
(***************************************************************************)
InitScenario ==
    LET q == NewPriorityQueue(2, 0)
    IN  /\ pairs = q.pairs
        /\ indexMap = q.indexMap
        /\ sizeD = q.sizeD
        /\ last = [op |-> Call("New", "", 0), ret |-> ZeroPair, err |-> NoErr]
        /\ step = 0
        /\ ArrayQueueOnly

ScenarioInsertAct == InsertWith(ScenarioPriorities)

ScenarioUpdateAct == UpdateWith(ScenarioPriorities)

NextScenario ==
    ScenarioInsertAct \/ TopAct \/ PeekAct \/ RemoveAct \/ ScenarioUpdateAct

SpecScenario == InitScenario /\ [][NextScenario]_vars

(***************************************************************************)
(* The queue built by any NewPriorityQueue(d, capacity) and grown to       *)
(* MaxShapeLen entries: Insert takes the first name not stored.            *)
(***************************************************************************)
NewCall(d, capacity) ==
    [name |-> "New", value |-> "", priority |-> 0, d |-> d, capacity |-> capacity]

InitShape ==
    \E d \in ShapeDChoices, c \in Capacities :
        LET q == NewPriorityQueue(d, c)
        IN  /\ pairs = q.pairs
            /\ indexMap = q.indexMap
            /\ sizeD = q.sizeD
            /\ last = [op |-> NewCall(d, c), ret |-> ZeroPair,
                       err |-> MakeErr(newCapacity(c))]
            /\ step = -1
            /\ ArrayQueueOnly

ShapeInsertAct ==
    \E i \in 1..MaxShapeLen, p \in ShapePriorities :
        /\ ShapeNames[i] \notin StoredValues(Q)
        /\ \A j \in 1..(i - 1) : ShapeNames[j] \in StoredValues(Q)
        /\ Apply(Call("Insert", ShapeNames[i], p), Insert(Q, ShapeNames[i], p))

NextShape == ShapeInsertAct \/ TopAct \/ PeekAct

SpecShape == InitShape /\ [][NextShape]_vars

(***************************************************************************)
(* The queue used through Insert and Top only.                             *)
(***************************************************************************)
NextInsertTop == InsertAct \/ TopAct

SpecInsertTop == Init /\ [][NextInsertTop]_vars

(***************************************************************************)
(* The queue when Insert is also called with values already stored.        *)
(***************************************************************************)
DupInsertAct ==
    \E v \in DupValues, p \in Priorities :
        /\ Len(pairs) < MaxDupLen
        /\ Apply(Call("Insert", v, p), Insert(Q, v, p))

DupRemoveAct == \E v \in DupValues : Apply(Call("Remove", v, 0), Remove(Q, v))

DupUpdateAct ==
    \E v \in DupValues, p \in Priorities : Apply(Call("Update", v, p), Update(Q, v, p))

NextDup == DupInsertAct \/ TopAct \/ PeekAct \/ DupRemoveAct \/ DupUpdateAct

SpecDup == Init /\ [][NextDup]_vars

(***************************************************************************)
(* A Bloom filter built by NewBloomFilter(n, fpRate, BloomSeed), then any  *)
(* sequence of Insert and Contains calls with the keys of Keys.            *)
(***************************************************************************)
InitBloom ==
    \E n \in 1..MaxN, fpRate \in FpRates :
        /\ bloomFilter = NewBloomFilter(n, fpRate, BloomSeed)
        /\ last = [op |-> Call("New", "", 0), ret |-> FALSE, err |-> NoErr]
        /\ pairs = <<>>
        /\ indexMap = EmptyMap
        /\ sizeD = 2
        /\ step = -1
        /\ linkedQueue = LinkedNewPriorityQueue(2)
        /\ linkedLast = NoLinkedCall
        /\ treap = NewTreap

\* Insert returns nothing: ret is FALSE.
BloomInsertAct ==
    \E key \in Keys :
        /\ bloomFilter' = BloomInsert(bloomFilter, key)
        /\ last' = [op |-> Call("Insert", key, 0), ret |-> FALSE, err |-> NoErr]
        /\ UNCHANGED <<pairs, indexMap, sizeD, step, linkedQueue, linkedLast, treap>>

BloomContainsAct ==
    \E key \in Keys :
        /\ last' = [op |-> Call("Contains", key, 0),
                    ret |-> Contains(bloomFilter, key), err |-> NoErr]
        /\ UNCHANGED <<bloomFilter, pairs, indexMap, sizeD, step, linkedQueue, linkedLast,
                       treap>>

NextBloom == BloomInsertAct \/ BloomContainsAct

SpecBloom == InitBloom /\ [][NextBloom]_vars

(***************************************************************************)
(* The array queue and the pointer-based queue side by side: built with    *)
(* the same d, every call is made on both.                                 *)
(***************************************************************************)
LQ == linkedQueue

ApplyBoth(call, r, lr) ==
    /\ pairs' = r.q.pairs
    /\ indexMap' = r.q.indexMap
    /\ sizeD' = r.q.sizeD
    /\ last' = [op |-> call, ret |-> r.ret, err |-> r.err]
    /\ step' = NextStep(call)
    /\ linkedQueue' = lr.q
    /\ linkedLast' = [ret |-> lr.ret, err |-> lr.err]
    /\ UNCHANGED <<bloomFilter, treap>>

\* The values Insert is called with are stored in neither queue.
LinkedStoredValues(p) == {p.nodes[n].pair.value : n \in DOMAIN p.nodes}

BothInsertAct ==
    \E v \in BothValues \ (StoredValues(Q) \cup LinkedStoredValues(LQ)), p \in BothPriorities :
        ApplyBoth(Call("Insert", v, p), Insert(Q, v, p), LinkedInsert(LQ, v, p))

BothTopAct == ApplyBoth(Call("Top", "", 0), Top(Q), LinkedTop(LQ))

BothPeekAct == ApplyBoth(Call("Peek", "", 0), Peek(Q), LinkedPeek(LQ))

BothRemoveAct ==
    \E v \in BothValues : ApplyBoth(Call("Remove", v, 0), Remove(Q, v), LinkedRemove(LQ, v))

BothUpdateAct ==
    \E v \in BothValues, p \in BothPriorities :
        ApplyBoth(Call("Update", v, p), Update(Q, v, p), LinkedUpdate(LQ, v, p))

NextBoth == BothInsertAct \/ BothTopAct \/ BothPeekAct \/ BothRemoveAct \/ BothUpdateAct

SpecBoth == Init /\ [][NextBoth]_vars

(***************************************************************************)
(* The array queue with its loops run one iteration per step.  `last` is   *)
(* the call being made: pc is the loop it is in ("done" once it has        *)
(* returned), index the loop's position (index of bubbleUpIndex,           *)
(* currentIndex of pushDownIndex), current the entry bubbleUpIndex holds.  *)
(* A call starts only when the one before has returned; Insert takes the   *)
(* first name of ShapeNames that is not stored.                            *)
(***************************************************************************)
Returned(call, ret, err) ==
    [op |-> call, ret |-> ret, err |-> err, pc |-> "done", index |-> 0,
     current |-> ZeroPair]

InLoop(call, ret, pc, index, current) ==
    [op |-> call, ret |-> ret, err |-> NoErr, pc |-> pc, index |-> index,
     current |-> current]

LoopFrame == UNCHANGED <<sizeD, step, bloomFilter, linkedQueue, linkedLast, treap>>

\* The call returns with the queue q.
Return(call, q, ret, err) ==
    /\ pairs' = q.pairs
    /\ indexMap' = q.indexMap
    /\ last' = Returned(call, ret, err)
    /\ LoopFrame

\* bubbleUpIndex(index) is entered: current := q.pairs[index].
EnterBubbleUp(call, q, ret, index) ==
    /\ pairs' = q.pairs
    /\ indexMap' = q.indexMap
    /\ last' = InLoop(call, ret, "bubbleUp", index, At(q.pairs, index))
    /\ LoopFrame

\* pushDownIndex(currentIndex) is entered.
EnterPushDown(call, q, ret, currentIndex) ==
    /\ pairs' = q.pairs
    /\ indexMap' = q.indexMap
    /\ last' = InLoop(call, ret, "pushDown", currentIndex, ZeroPair)
    /\ LoopFrame

InitLoops ==
    \E d \in DChoices :
        LET q == NewPriorityQueue(d, 0)
        IN  /\ pairs = q.pairs
            /\ indexMap = q.indexMap
            /\ sizeD = q.sizeD
            /\ last = Returned(Call("New", "", 0), ZeroPair, NoErr)
            /\ step = -1
            /\ ArrayQueueOnly

LoopInsertAct ==
    \E i \in 1..MaxLoopLen, priority \in LoopPriorities :
        LET element == ShapeNames[i]
            q1 == [Q EXCEPT !.pairs = Append(pairs, Pair(priority, element)),
                            !.indexMap = MapPut(indexMap, element, Len(pairs))]
        IN  /\ last.pc = "done"
            /\ element \notin StoredValues(Q)
            /\ \A j \in 1..(i - 1) : ShapeNames[j] \in StoredValues(Q)
            /\ EnterBubbleUp(Call("Insert", element, priority), q1, ZeroPair,
                             Len(q1.pairs) - 1)

LoopTopAct ==
    LET call == Call("Top", "", 0)
    IN  /\ last.pc = "done"
        /\ IF isEmpty(Q) THEN Return(call, Q, ZeroPair, ErrQueueIsEmpty)
           ELSE LET r == removeLast(Q)
                    p == r.ret
                IN  IF isEmpty(r.q) THEN Return(call, r.q, p, NoErr)
                    ELSE EnterPushDown(call,
                                       [r.q EXCEPT !.pairs = SetAt(r.q.pairs, 0, p),
                                                   !.indexMap = MapPut(r.q.indexMap, p.value, 0)],
                                       At(r.q.pairs, 0), 0)

LoopPeekAct ==
    /\ last.pc = "done"
    /\ Return(Call("Peek", "", 0), Q, Peek(Q).ret, Peek(Q).err)

LoopRemoveAct ==
    \E i \in 1..MaxLoopLen :
        LET element == ShapeNames[i]
            call == Call("Remove", element, 0)
        IN  /\ last.pc = "done"
            /\ IF element \notin DOMAIN indexMap
               THEN Return(call, Q, ZeroPair, ErrElementNotFound)
               ELSE LET index == indexMap[element]
                        lastIndex == Len(pairs) - 1
                    IN  IF index = lastIndex
                        THEN Return(call,
                                    [Q EXCEPT !.pairs = Truncate(pairs, lastIndex),
                                              !.indexMap = MapDelete(indexMap, element)],
                                    ZeroPair, NoErr)
                        ELSE LET removedElement == At(pairs, index).value
                                 removedPriority == At(pairs, index).priority
                                 moved == At(pairs, lastIndex)
                                 m1 == MapPut(indexMap, moved.value, index)
                                 q1 == [Q EXCEPT !.pairs = Truncate(SetAt(pairs, index, moved),
                                                                    lastIndex),
                                                 !.indexMap = MapDelete(m1, removedElement)]
                             IN  IF moved.priority < removedPriority
                                 THEN EnterBubbleUp(call, q1, ZeroPair, index)
                                 ELSE IF moved.priority > removedPriority
                                      THEN EnterPushDown(call, q1, ZeroPair, index)
                                      ELSE Return(call, q1, ZeroPair, NoErr)

LoopUpdateAct ==
    \E i \in 1..MaxLoopLen, newPriority \in LoopPriorities :
        LET element == ShapeNames[i]
            call == Call("Update", element, newPriority)
        IN  /\ last.pc = "done"
            /\ IF element \notin DOMAIN indexMap
               THEN Return(call, Q, ZeroPair, ErrElementNotFound)
               ELSE LET index == indexMap[element]
                        oldPriority == At(pairs, index).priority
                        q1 == [Q EXCEPT !.pairs = SetAt(pairs, index,
                                                        Pair(newPriority, element))]
                    IN  IF newPriority < oldPriority
                        THEN EnterBubbleUp(call, q1, ZeroPair, index)
                        ELSE IF newPriority > oldPriority
                             THEN EnterPushDown(call, q1, ZeroPair, index)
                             ELSE Return(call, q1, ZeroPair, NoErr)

\* Lines 139-141: the loop of bubbleUpIndex goes round once more.
BubbleUpGoesOn ==
    /\ last.index > 0
    /\ At(pairs, getParentIndex(Q, last.index)).priority < last.current.priority

\* The round of bubbleUpIndex without line 144 (index = parentIndex).
BubbleUpStep_NoMove ==
    LET parentIndex == getParentIndex(Q, last.index)
        moved == At(pairs, parentIndex)
    IN  /\ last.pc = "bubbleUp"
        /\ BubbleUpGoesOn
        /\ pairs' = SetAt(pairs, last.index, moved)
        /\ indexMap' = MapPut(indexMap, moved.value, last.index)
        /\ last' = last
        /\ LoopFrame

\* Lines 142-144.
BubbleUpStep ==
    LET parentIndex == getParentIndex(Q, last.index)
        moved == At(pairs, parentIndex)
    IN  /\ last.pc = "bubbleUp"
        /\ BubbleUpGoesOn
        /\ pairs' = SetAt(pairs, last.index, moved)
        /\ indexMap' = MapPut(indexMap, moved.value, last.index)
        /\ last' = [last EXCEPT !.index = parentIndex]
        /\ LoopFrame

\* Lines 149-150, then the call returns.
BubbleUpExit ==
    /\ last.pc = "bubbleUp"
    /\ ~BubbleUpGoesOn
    /\ pairs' = SetAt(pairs, last.index, last.current)
    /\ indexMap' = MapPut(indexMap, last.current.value, last.index)
    /\ last' = Returned(last.op, last.ret, NoErr)
    /\ LoopFrame

\* Lines 158-163: the loop of pushDownIndex goes round once more.
PushDownGoesOn ==
    /\ last.index < firstLeafIndex(Q)
    /\ highestPriorityChild(Q, last.index) /= -1
    /\ At(pairs, highestPriorityChild(Q, last.index)).priority
           > At(pairs, last.index).priority

\* Lines 164-167.
PushDownStep ==
    LET currentIndex == last.index
        childIndex == highestPriorityChild(Q, currentIndex)
        swapped == SetAt(SetAt(pairs, currentIndex, At(pairs, childIndex)),
                         childIndex, At(pairs, currentIndex))
    IN  /\ last.pc = "pushDown"
        /\ PushDownGoesOn
        /\ pairs' = swapped
        /\ indexMap' = MapPut(MapPut(indexMap, At(swapped, currentIndex).value, currentIndex),
                              At(swapped, childIndex).value, childIndex)
        /\ last' = [last EXCEPT !.index = childIndex]
        /\ LoopFrame

\* pushDownIndex returns; Top then deletes the returned element from the
\* index (line 54).
PushDownExit ==
    /\ last.pc = "pushDown"
    /\ ~PushDownGoesOn
    /\ pairs' = pairs
    /\ indexMap' = IF last.op.name = "Top" THEN MapDelete(indexMap, last.ret.value)
                   ELSE indexMap
    /\ last' = Returned(last.op, last.ret, NoErr)
    /\ LoopFrame

LoopRuns == BubbleUpStep \/ BubbleUpExit \/ PushDownStep \/ PushDownExit

NextLoops ==
    \/ LoopInsertAct \/ LoopTopAct \/ LoopPeekAct \/ LoopRemoveAct \/ LoopUpdateAct
    \/ LoopRuns

\* A call that has been entered keeps running: its goroutine is never
\* suspended for ever.
SpecLoops == InitLoops /\ [][NextLoops]_vars /\ WF_vars(LoopRuns)

(***************************************************************************)
(* The pointer-based queue alone: any calls, Insert also with values that  *)
(* are stored, up to MaxLinkedLen entries.                                 *)
(***************************************************************************)
InitLinked ==
    \E d \in DChoices :
        /\ linkedQueue = LinkedNewPriorityQueue(d)
        /\ linkedLast = NoLinkedCall
        /\ treap = NewTreap
        /\ last = [op |-> Call("New", "", 0), ret |-> ZeroPair, err |-> NoErr]
        /\ pairs = <<>>
        /\ indexMap = EmptyMap
        /\ sizeD = 2
        /\ step = -1
        /\ bloomFilter = NoBloomFilter

ApplyLinked(call, lr) ==
    /\ linkedQueue' = lr.q
    /\ linkedLast' = [ret |-> lr.ret, err |-> lr.err]
    /\ last' = [op |-> call, ret |-> lr.ret, err |-> lr.err]
    /\ UNCHANGED <<pairs, indexMap, sizeD, step, bloomFilter, treap>>

LinkedInsertAct ==
    \E v \in LinkedValues, p \in Priorities :
        /\ LQ.size < MaxLinkedLen
        /\ ApplyLinked(Call("Insert", v, p), LinkedInsert(LQ, v, p))

LinkedTopAct == ApplyLinked(Call("Top", "", 0), LinkedTop(LQ))

LinkedPeekAct == ApplyLinked(Call("Peek", "", 0), LinkedPeek(LQ))

LinkedRemoveAct ==
    \E v \in LinkedValues : ApplyLinked(Call("Remove", v, 0), LinkedRemove(LQ, v))

LinkedUpdateAct ==
    \E v \in LinkedValues, p \in Priorities :
        ApplyLinked(Call("Update", v, p), LinkedUpdate(LQ, v, p))

NextLinked ==
    LinkedInsertAct \/ LinkedTopAct \/ LinkedPeekAct \/ LinkedRemoveAct \/ LinkedUpdateAct

SpecLinked == InitLinked /\ [][NextLinked]_vars

(***************************************************************************)
(* The treap: Insert is called with keys that are not in the tree.         *)
(***************************************************************************)
TreapKeys == 1..NumTreapKeys

RECURSIVE Subtree(_, _)
Subtree(t, n) ==
    IF n = Nil THEN {}
    ELSE {n} \cup Subtree(t, t.nodes[n].left) \cup Subtree(t, t.nodes[n].right)

KeysOf(t) == {t.nodes[n].key : n \in Subtree(t, t.root)}

InitTreap ==
    /\ treap = NewTreap
    /\ last = [op |-> Call("New", 0, 0), ret |-> 0, err |-> NoErr]
    /\ pairs = <<>>
    /\ indexMap = EmptyMap
    /\ sizeD = 2
    /\ step = -1
    /\ bloomFilter = NoBloomFilter
    /\ linkedQueue = LinkedNewPriorityQueue(2)
    /\ linkedLast = NoLinkedCall

ApplyTreap(call, r) ==
    /\ treap' = r.t
    /\ last' = [op |-> call, ret |-> r.ret, err |-> r.err]
    /\ UNCHANGED <<pairs, indexMap, sizeD, step, bloomFilter, linkedQueue, linkedLast>>

TreapInsertAct ==
    \E key \in TreapKeys \ KeysOf(treap), priority \in TreapPriorities :
        ApplyTreap(Call("Insert", key, priority), TreapInsert(treap, key, priority))

TreapRemoveAct ==
    \E key \in TreapKeys : ApplyTreap(Call("Remove", key, 0), TreapRemove(treap, key))

TreapTopAct == ApplyTreap(Call("Top", 0, 0), TreapTop(treap))

TreapPeekAct == ApplyTreap(Call("Peek", 0, 0), TreapPeek(treap))

TreapUpdateAct ==
    \E key \in TreapKeys, priority \in TreapPriorities :
        ApplyTreap(Call("Update", key, priority), TreapUpdate(treap, key, priority))

NextTreap ==
    TreapInsertAct \/ TreapRemoveAct \/ TreapTopAct \/ TreapPeekAct \/ TreapUpdateAct

SpecTreap == InitTreap /\ [][NextTreap]_vars

(***************************************************************************)
(* Vocabulary of the properties.                                           *)
(***************************************************************************)
Positions(q) == 0..(Len(q.pairs) - 1)

Entries(q) == {At(q.pairs, i) : i \in Positions(q)}

PrioritiesOf(q) == {At(q.pairs, i).priority : i \in Positions(q)}

\* parent(i) = (i-1)/d for a non-root position i (i >= 1, so no rounding issue).
ParentOf(i, d) == (i - 1) \div d

MaxHeap(q) ==
    \A i \in Positions(q) \ {0} :
        At(q.pairs, i).priority <= At(q.pairs, ParentOf(i, q.sizeD)).priority

IndexConsistent(q) ==
    /\ \A i \in Positions(q) :
          /\ At(q.pairs, i).value \in DOMAIN q.indexMap
          /\ q.indexMap[At(q.pairs, i).value] = i
    /\ DOMAIN q.indexMap = StoredValues(q)

Succeeded(name) == last.op.name = name /\ last.err = NoErr

\* C1: after any sequence of Insert (distinct values), Top, Remove and Update
\* calls, every non-root position holds a priority <= its parent's, for
\* every branching factor.  (Stated as the claim states it; the code's Update
\* and Remove break it.)
C1_MaxHeapInvariant == MaxHeap(Q)

\* C2: after any sequence of calls the index maps every stored value to its
\* position, and its key set is exactly the set of stored values.
C2_IndexConsistency == IndexConsistent(Q)

\* C2 witness: a successful Remove has just relocated the last entry into the
\* middle of the storage, leaving three entries in an order that is not even
\* a heap, and the index still matches the storage.
C2_Witness ==
    /\ Succeeded("Remove")
    /\ Len(pairs) = 3
    /\ ~MaxHeap(Q)
    /\ \A i \in Positions(Q) : indexMap[At(pairs, i).value] = i

\* C3: Peek on a non-empty queue returns an entry whose priority is >= every
\* stored priority, and changes neither storage nor index.  (Stated as the
\* claim states it.)
C3_PeekReturnsMax ==
    [][(last'.op.name = "Peek" /\ ~isEmpty(Q))
          => /\ last'.err = NoErr
             /\ \A x \in PrioritiesOf(Q) : x <= last'.ret.priority
             /\ pairs' = pairs
             /\ indexMap' = indexMap]_vars

NonIncreasing(s) == \A i \in 1..(Len(s) - 1) : s[i] >= s[i + 1]

\* The priorities a run of Top calls returns until the queue is empty.
RECURSIVE TopUntilEmpty(_)
TopUntilEmpty(q) ==
    IF isEmpty(q)
    THEN <<>>
    ELSE LET r == Top(q) IN <<r.ret.priority>> \o TopUntilEmpty(r.q)

PriorityIn(q, v) == At(q.pairs, q.indexMap[v]).priority

\* C4: from any reachable state, Top called repeatedly until the queue is
\* empty returns priorities in non-increasing order.  (Stated as the claim
\* states it.)
C4_TopOrder == NonIncreasing(TopUntilEmpty(Q))

\* C5: after a successful Update(v, p2), v is stored with priority p2; if p2
\* is strictly greater than every other stored priority Peek returns (p2, v);
\* if the old priority was the strict maximum and p2 is below another
\* entry's priority, Peek no longer returns v.  (Stated as the claim states
\* it.)
C5_UpdateReflected ==
    [][(last'.op.name = "Update" /\ last'.err = NoErr)
          => LET v  == last'.op.value
                 p2 == last'.op.priority
                 others == {e \in Entries(Q) : e.value # v}
                 old == PriorityIn(Q, v)
             IN  /\ Pair(p2, v) \in Entries(Q')
                 /\ (\A e \in others : e.priority < p2)
                       => Peek(Q').ret = Pair(p2, v)
                 /\ ( /\ \A e \in others : e.priority < old
                      /\ \E e \in others : e.priority > p2 )
                       => Peek(Q').ret.value # v]_vars

\* C6: for a queue satisfying the max-heap invariant and a value v not
\* present, Insert(v, p) followed immediately by Remove(v) leaves Peek and
\* the priorities of a run of Top calls as they were.  (Stated as the claim
\* states it, with Peek compared by priority: which of several entries of
\* equal priority sits at the root is no part of the observable behaviour.)
C6_InsertRemoveRoundTrip ==
    MaxHeap(Q) =>
        \A v \in Values \ StoredValues(Q), p \in Priorities :
            LET q2 == Remove(Insert(Q, v, p).q, v).q
            IN  /\ Peek(q2).ret.priority = Peek(Q).ret.priority
                /\ Peek(q2).err = Peek(Q).err
                /\ TopUntilEmpty(q2) = TopUntilEmpty(Q)

\* C7: d = 2, from empty: Insert(A,10), Insert(B,5), Insert(C,8) gives
\* Peek = (10,A); Update(B,20) gives Peek = (20,B); Remove(A) gives
\* Peek = (20,B); Top returns (20,B) and Peek = (8,C); Top returns (8,C), the
\* queue is empty and Peek fails with the empty-queue error.  (Stated as the
\* claim states it; `step` counts the calls of Scenario made so far.)
C7_Scenario ==
    /\ step = 3 => Peek(Q) = [q |-> Q, ret |-> Pair(10, "A"), err |-> NoErr]
    /\ step = 4 => Peek(Q) = [q |-> Q, ret |-> Pair(20, "B"), err |-> NoErr]
    /\ step = 5 => Peek(Q) = [q |-> Q, ret |-> Pair(20, "B"), err |-> NoErr]
    /\ step = 6 => /\ last.op.name = "Top" => (last.ret = Pair(20, "B") /\ last.err = NoErr)
                   /\ Peek(Q) = [q |-> Q, ret |-> Pair(8, "C"), err |-> NoErr]
    /\ step = 7 => /\ last.op.name = "Top" => (last.ret = Pair(8, "C") /\ last.err = NoErr)
                   /\ isEmpty(Q)
                   /\ Peek(Q).err = ErrQueueIsEmpty

\* C8: Peek and Top on a queue with zero entries return ErrQueueIsEmpty and
\* leave storage and index unchanged, at every such call.
C8_EmptyQueueErrors ==
    [][(isEmpty(Q) /\ last'.op.name \in {"Peek", "Top"})
          => /\ last'.err = ErrQueueIsEmpty
             /\ pairs' = pairs
             /\ indexMap' = indexMap]_vars

\* C8 witness: Top has just failed with ErrQueueIsEmpty on a queue that holds
\* no entry and no index key.
C8_Witness ==
    /\ last.op.name = "Top"
    /\ last.err = ErrQueueIsEmpty
    /\ isEmpty(Q)
    /\ DOMAIN indexMap = {}

\* C9: Remove(v) and Update(v, p) return ErrElementNotFound exactly when v
\* is not among the stored values, and then storage and index are unchanged;
\* when v is present they return no error.
C9_NotFoundErrors ==
    [][(last'.op.name \in {"Remove", "Update"})
          => LET v == last'.op.value
             IN  /\ last'.err = ErrElementNotFound <=> v \notin StoredValues(Q)
                 /\ v \notin StoredValues(Q) => (pairs' = pairs /\ indexMap' = indexMap)
                 /\ v \in StoredValues(Q) => last'.err = NoErr]_vars

\* C9 witness: Remove(v) has just failed on a non-empty queue that does not
\* hold v.
C9_Witness ==
    /\ last.op.name = "Remove"
    /\ last.err = ErrElementNotFound
    /\ Len(pairs) >= 2
    /\ last.op.value \notin StoredValues(Q)

\* C10: every call changes the set of stored entries by exactly its own
\* entry: Insert(v,p) adds (v,p); a successful Top removes the entry it
\* returns; a successful Remove(v) removes v's entry; a successful
\* Update(v,p) changes only v's priority; sizes change by +1, -1, -1, 0.
C10_FrameEffect ==
    [][LET op == last'.op
           ok == last'.err = NoErr
           rest == {e \in Entries(Q) : e.value # op.value}
       IN  /\ op.name = "Insert"
                => /\ Entries(Q') = Entries(Q) \cup {Pair(op.priority, op.value)}
                   /\ Len(pairs') = Len(pairs) + 1
           /\ (op.name = "Top" /\ ok)
                => /\ last'.ret \in Entries(Q)
                   /\ Entries(Q') = Entries(Q) \ {last'.ret}
                   /\ Len(pairs') = Len(pairs) - 1
           /\ (op.name = "Remove" /\ ok)
                => /\ Entries(Q') = rest
                   /\ Len(pairs') = Len(pairs) - 1
           /\ (op.name = "Update" /\ ok)
                => /\ Entries(Q') = rest \cup {Pair(op.priority, op.value)}
                   /\ Len(pairs') = Len(pairs)]_vars

\* C10 witness: a successful Remove has just taken an entry out of the
\* middle of the storage, leaving three entries.
C10_Witness ==
    /\ Succeeded("Remove")
    /\ Len(pairs) = 3
    /\ last.op.value \notin StoredValues(Q)

\* C11: for every branching factor and size, the children push-down examines
\* for position i are exactly the positions i*d+1 .. i*d+d below the size
\* (never more than d), getParentIndex of each of them is i, and the loop
\* guard currentIndex < firstLeafIndex() is true at every position that has
\* a child.
C11_ChildLayout ==
    \A i \in Positions(Q) :
        LET kids == {c \in (i * sizeD + 1)..(i * sizeD + sizeD) : c < Len(pairs)}
        IN  /\ ExaminedChildren(Q, i) = kids
            /\ Cardinality(ExaminedChildren(Q, i)) <= sizeD
            /\ \A c \in kids : getParentIndex(Q, c) = i
            /\ kids # {} => i < firstLeafIndex(Q)

\* C11 witness: with d = 3 a Top has just pushed an entry down in a queue of
\* five entries, where position 1 has the single child 4 and positions 2, 3,
\* 4 have none.
C11_Witness ==
    /\ Succeeded("Top")
    /\ sizeD = 3
    /\ Len(pairs) = 5
    /\ ExaminedChildren(Q, 1) = {4}
    /\ ExaminedChildren(Q, 2) = {}

\* C12: NewPriorityQueue(d, capacity) never fails; the queue it returns has
\* branching factor 2 for d < 2 and d otherwise (and keeps it), a negative
\* capacity is treated as 0, and the queue is empty: Peek and Top fail with
\* ErrQueueIsEmpty and the index has no key.
C12_Construction ==
    /\ last.op.name = "New"
    /\ last.err = NoErr
    /\ sizeD = (IF last.op.d < 2 THEN 2 ELSE last.op.d)
    /\ isEmpty(Q)
    /\ Peek(Q).err = ErrQueueIsEmpty
    /\ Top(Q).err = ErrQueueIsEmpty
    /\ DOMAIN indexMap = {}
    /\ [][sizeD' = sizeD]_vars

\* C12 witness: the queue just built from d = 0 and a negative capacity.
C12_Witness ==
    /\ last.op.name = "New"
    /\ last.op.d = 0
    /\ last.op.capacity < 0
    /\ sizeD = 2
    /\ isEmpty(Q)

(***************************************************************************)
(* C13: Bloom filter: after Insert(k), Contains(k) is true, and it stays   *)
(* true whatever is inserted afterwards: an Insert makes Contains true for *)
(* its key, no step clears a bit or turns a true Contains into a false     *)
(* one, and a Contains call returns that value.                            *)
(***************************************************************************)
BitPositions(b) == 0..(b.numBits - 1)

C13_NoFalseNegatives ==
    [][ /\ last'.op.name = "Insert" => Contains(bloomFilter', last'.op.value)
        /\ \A key \in Keys : Contains(bloomFilter, key) => Contains(bloomFilter', key)
        /\ \A i \in BitPositions(bloomFilter) :
               readBit(bloomFilter.bitsArray, i) => readBit(bloomFilter'.bitsArray, i)
        /\ last'.op.name = "Contains" /\ Contains(bloomFilter, last'.op.value)
               => last'.ret ]_vars

\* Contains("in_0") returned true in a filter of more than one byte that
\* holds bits of other keys too and is not full.
C13_Witness ==
    /\ last.op.name = "Contains"
    /\ last.op.value = "in_0"
    /\ last.ret
    /\ bloomFilter.numBits > 8
    /\ Contains(bloomFilter, "hiM")
    /\ \E i \in BitPositions(bloomFilter) :
           /\ readBit(bloomFilter.bitsArray, i)
           /\ \A j \in DOMAIN key2Positions(bloomFilter, "in_0") :
                  key2Positions(bloomFilter, "in_0")[j] /= i
    /\ \E key \in Keys : ~Contains(bloomFilter, key)

(***************************************************************************)
(* C14: Bloom filter: key2Positions returns exactly numHashFunctions       *)
(* positions, each below numBits; position j is (h1 + j*h2 + j*j) reduced  *)
(* modulo 2^32 and then modulo numBits (stated for the keys whose hashes   *)
(* are 0 and 2^32 - 1, where the sum is j*j + j, j*j + j - 1, j*j - j and  *)
(* j*j - j - 1 modulo 2^32); no call changes the positions of a key.       *)
(***************************************************************************)
\* 2^32 modulo m.
Pow32Mod(m) == ((Limb % m) * (Limb % m)) % m

\* (e modulo 2^32) modulo m, for e >= -m.
WrapMod(e, m) == IF e >= 0 THEN e % m ELSE (Pow32Mod(m) + m + e) % m

ExpectedSum(key, j) ==
    CASE key = "lo1" -> j * j + j
      [] key = "hi1" -> j * j + j - 1
      [] key = "loM" -> j * j - j
      [] key = "hiM" -> j * j - j - 1

PositionsRight(b) ==
    \A key \in Keys :
        LET pos == key2Positions(b, key)
        IN  /\ DOMAIN pos = 1..b.numHashFunctions
            /\ \A i \in DOMAIN pos : pos[i] \in BitPositions(b)
            /\ key \in {"lo1", "hi1", "loM", "hiM"} =>
                   \A i \in DOMAIN pos : pos[i] = WrapMod(ExpectedSum(key, i - 1), b.numBits)

C14_Positions ==
    /\ PositionsRight(bloomFilter)
    /\ [][ /\ PositionsRight(bloomFilter')
           /\ \A key \in Keys :
                  key2Positions(bloomFilter', key) = key2Positions(bloomFilter, key) ]_vars

\* An Insert has been made into a filter of seven hash functions and more
\* than 16 bits, where 2^32 is no multiple of numBits and the sum for "hiM"
\* exceeds 2^32.
C14_Witness ==
    /\ last.op.name = "Insert"
    /\ bloomFilter.numHashFunctions = 7
    /\ bloomFilter.numBits > 16
    /\ Pow32Mod(bloomFilter.numBits) /= 0
    /\ key2Positions(bloomFilter, "hiM")[4] = WrapMod(5, bloomFilter.numBits)
    /\ key2Positions(bloomFilter, "hiM")[4] /= key2Positions(bloomFilter, "in_0")[4]

\* The child positions of i by the tree shape: i*d+1 .. i*d+d below the size.
Kids(q, i) == {c \in (i * q.sizeD + 1)..(i * q.sizeD + q.sizeD) : c < Len(q.pairs)}

RECURSIVE AncestorsOrSelf(_, _)
AncestorsOrSelf(x, d) ==
    IF x <= 0 THEN {0} ELSE {x} \cup AncestorsOrSelf(ParentOf(x, d), d)

\* The positions from `top` down to `bottom` (empty unless top is an ancestor).
PathBetween(top, bottom, d) ==
    {x \in AncestorsOrSelf(bottom, d) : top \in AncestorsOrSelf(x, d)}

\* The child of i with the highest priority, the lowest position among equals.
BestKid(q, i) ==
    CHOOSE c \in Kids(q, i) :
        \A c2 \in Kids(q, i) :
            \/ At(q.pairs, c2).priority < At(q.pairs, c).priority
            \/ At(q.pairs, c2).priority = At(q.pairs, c).priority /\ c <= c2

\* C15: Update(v, p) with v present: a lowered priority pushes the entry down
\* (afterwards no child of it has a strictly greater priority), a raised one
\* bubbles it up (afterwards its parent's priority is not lower), an
\* unchanged one moves nothing.  (Stated as the claim states it.)
C15_UpdateDirection ==
    [][(last'.op.name = "Update" /\ last'.err = NoErr)
          => LET v   == last'.op.value
                 p   == last'.op.priority
                 old == PriorityIn(Q, v)
                 j   == indexMap'[v]
             IN  /\ p < old => \A c \in Kids(Q', j) : At(pairs', c).priority <= p
                 /\ (p > old /\ j > 0) => At(pairs', ParentOf(j, sizeD)).priority >= p
                 /\ p = old => pairs' = pairs]_vars

\* C16: one Remove(v) of a present value, applied to a queue satisfying the
\* max-heap invariant, restores the max-heap invariant; when v is in the last
\* position the storage is only truncated.  (Stated as the claim states it.)
C16_RemoveRestoresHeap ==
    [][(last'.op.name = "Remove" /\ last'.err = NoErr /\ MaxHeap(Q))
          => /\ MaxHeap(Q')
             /\ indexMap[last'.op.value] = Len(pairs) - 1
                   => pairs' = Truncate(pairs, Len(pairs) - 1)]_vars

\* C17: after any sequence of Insert (distinct values) and Top calls only, the
\* max-heap invariant holds, and every Top returns an entry whose priority
\* is the maximum of the priorities stored just before the call.
C17_InsertTopHeap ==
    [][/\ MaxHeap(Q')
       /\ (last'.op.name = "Top" /\ last'.err = NoErr)
             => /\ last'.ret \in Entries(Q)
                /\ \A x \in PrioritiesOf(Q) : x <= last'.ret.priority]_vars

\* C17 witness: a Top has just returned an entry of priority 3 and pushed the
\* relocated entry below a child, leaving three entries.
C17_Witness ==
    /\ Succeeded("Top")
    /\ last.ret.priority = 3
    /\ Len(pairs) = 3
    /\ At(pairs, 0).priority > At(pairs, 2).priority
    /\ MaxHeap(Q)

\* C18: the pointer-based queue run side by side with the array queue (same
\* d, same calls, Insert with distinct values): every call succeeds in one
\* exactly when it succeeds in the other, and every successful Peek and Top
\* returns an entry of the same priority in both.
C18_LinkedEquivalent ==
    /\ (last.err = NoErr) <=> (linkedLast.err = NoErr)
    /\ (last.op.name \in {"Peek", "Top"} /\ last.err = NoErr /\ linkedLast.err = NoErr)
           => last.ret.priority = linkedLast.ret.priority

\* C19: push-down from position i: the child chosen is the one of highest
\* priority, the lowest position among equals; the entry is swapped with it
\* only when the child's priority is strictly greater, and push-down stops at
\* the first position where no child exceeds the entry.  So the entry ends
\* at a position j below i, every entry on the way moved up one level, was
\* the chosen child and strictly greater, no child of j exceeds the entry,
\* and nothing else moved.
C19_PushDown ==
    \A i \in Positions(Q) :
        LET e == At(pairs, i)
            r == pushDownIndex(Q, i)
            j == r.indexMap[e.value]
            path == PathBetween(i, j, sizeD)
        IN  /\ highestPriorityChild(Q, i) = (IF Kids(Q, i) = {} THEN -1 ELSE BestKid(Q, i))
            /\ i \in AncestorsOrSelf(j, sizeD)
            /\ At(r.pairs, j) = e
            /\ \A x \in path \ {i} :
                  /\ At(r.pairs, ParentOf(x, sizeD)) = At(pairs, x)
                  /\ At(pairs, x).priority > e.priority
                  /\ x = BestKid(Q, ParentOf(x, sizeD))
            /\ \A c \in Kids(Q, j) : At(pairs, c).priority <= e.priority
            /\ \A x \in Positions(Q) \ path : At(r.pairs, x) = At(pairs, x)

\* C19 witness: an Update has left the root below two children of equal,
\* strictly greater priority, so push-down from the root swaps it with the
\* first of them.
C19_Witness ==
    /\ Succeeded("Update")
    /\ Len(pairs) >= 3
    /\ At(pairs, 1).priority = At(pairs, 2).priority
    /\ At(pairs, 1).priority > At(pairs, 0).priority
    /\ At(pushDownIndex(Q, 0).pairs, 0) = At(pairs, 1)

CountOf(s, e) == Cardinality({i \in 1..Len(s) : s[i] = e})

\* C20: Insert(v, p2) of a value already stored appends: the storage grows by
\* one, the old entries all stay and (p2, v) is added, the new entry sits
\* where bubble-up from the last position put it (the entries above it on
\* that path moved down one level), and the index maps v to that position.
C20_DuplicateInsert ==
    [][(last'.op.name = "Insert" /\ last'.op.value \in StoredValues(Q))
          => LET v == last'.op.value
                 new == Pair(last'.op.priority, v)
                 n == Len(pairs)
                 j == indexMap'[v]
                 path == PathBetween(j, n, sizeD)
             IN  /\ last'.err = NoErr
                 /\ Len(pairs') = n + 1
                 /\ \A e \in Entries(Q) \cup {new} :
                       CountOf(pairs', e) = CountOf(pairs, e) + (IF e = new THEN 1 ELSE 0)
                 /\ v \in DOMAIN indexMap'
                 /\ j \in AncestorsOrSelf(n, sizeD)
                 /\ At(pairs', j) = new
                 /\ \A x \in path \ {j} : At(pairs', x) = At(pairs, ParentOf(x, sizeD))
                 /\ \A x \in Positions(Q) \ path : At(pairs', x) = At(pairs, x)]_vars

\* C20 witness: Insert has just added a second entry for a stored value; the
\* index maps the value to the new entry, and an older entry of another
\* priority holds another slot.
C20_Witness ==
    /\ last.op.name = "Insert"
    /\ At(pairs, indexMap[last.op.value]) = Pair(last.op.priority, last.op.value)
    /\ \E i \in Positions(Q) :
          /\ i # indexMap[last.op.value]
          /\ At(pairs, i).value = last.op.value
          /\ At(pairs, i).priority > last.op.priority

(***************************************************************************)
(* C21: every call of Insert, Peek, Top, Remove and Update returns: each   *)
(* round of bubble-up moves to a strictly lower position, not below 0, and *)
(* at position 0 the loop is left; each round of push-down moves to a      *)
(* strictly higher position inside the storage, and at a position without  *)
(* child the loop is left; a call that has been entered leads to its       *)
(* return.                                                                 *)
(***************************************************************************)
C21_Terminates ==
    /\ [][ /\ (last.pc = "bubbleUp" /\ last'.pc = "bubbleUp")
                => (last'.index < last.index /\ last'.index >= 0)
           /\ (last.pc = "bubbleUp" /\ last.index = 0) => last'.pc = "done"
           /\ (last.pc = "pushDown" /\ last'.pc = "pushDown")
                => (last'.index > last.index /\ last'.index < Len(pairs'))
           /\ (last.pc = "pushDown" /\ Kids(Q, last.index) = {}) => last'.pc = "done"
         ]_vars
    /\ (last.pc /= "done") ~> (last.pc = "done")

\* An Insert has returned after two rounds of bubble-up, from position 3 to
\* the root of a queue with d = 2.
C21_Witness ==
    /\ last.pc = "done"
    /\ last.op.name = "Insert"
    /\ sizeD = 2
    /\ Len(pairs) = 4
    /\ At(pairs, 0).value = last.op.value
    /\ indexMap[last.op.value] = 0

(***************************************************************************)
(* C22: pointer-based queue: the nodes that can be reached from root are   *)
(* exactly the nodes at the positions 1..size of the complete d-ary tree   *)
(* (none at a later position, root nil exactly when size is 0), every      *)
(* child's parent is the node holding it in a child slot, the root has no  *)
(* parent, and no child has a higher priority than its parent.             *)
(***************************************************************************)
ChildrenOf(p, n) ==
    {At(p.nodes[n].childes, i) : i \in 0..(Len(p.nodes[n].childes) - 1)} \ {Nil}

RECURSIVE ReachFrom(_, _, _)
ReachFrom(p, frontier, seen) ==
    IF frontier = {} THEN seen
    ELSE LET next == UNION {ChildrenOf(p, n) : n \in frontier}
         IN  ReachFrom(p, next \ (seen \cup frontier), seen \cup frontier)

Reachable(p) == IF p.root = Nil THEN {} ELSE ReachFrom(p, {p.root}, {})

\* The node found by walking from root to position index, whatever size says.
NodeAtPosition(p, index) ==
    IF p.root = Nil THEN Nil ELSE followPath(p, p.root, pathTo(p, index), 1)

C22_LinkedShape ==
    LET p == LQ
    IN  /\ (p.root = Nil) <=> (p.size = 0)
        /\ \A i \in 1..p.size : NodeAtPosition(p, i) /= Nil
        /\ \A i, j \in 1..p.size : i /= j => NodeAtPosition(p, i) /= NodeAtPosition(p, j)
        /\ Reachable(p) = {NodeAtPosition(p, i) : i \in 1..p.size}
        /\ \A i \in (p.size + 1)..(p.size * p.sizeD + 1) : NodeAtPosition(p, i) = Nil
        /\ p.root /= Nil => p.nodes[p.root].parent = Nil
        /\ \A n \in Reachable(p) :
               /\ Len(p.nodes[n].childes) = p.sizeD
               /\ \A c \in ChildrenOf(p, n) :
                      /\ p.nodes[c].parent = n
                      /\ p.nodes[c].pair.priority <= p.nodes[n].pair.priority

\* A Remove has taken an entry out of the middle of a queue with d = 2,
\* leaving three nodes on two levels.
C22_Witness ==
    /\ last.op.name = "Remove"
    /\ last.err = NoErr
    /\ LQ.sizeD = 2
    /\ LQ.size = 3
    /\ LQ.nodes[LQ.root].pair.priority > LQ.nodes[NodeAtPosition(LQ, 3)].pair.priority
    /\ LQ.nodes[NodeAtPosition(LQ, 2)].pair.priority < LQ.nodes[NodeAtPosition(LQ, 3)].pair.priority

(***************************************************************************)
(* The treap.                                                              *)
(***************************************************************************)
TreapNodes == Subtree(treap, treap.root)

\* Every key of the left subtree is smaller and every key of the right
\* subtree is larger than the node's key.
IsSearchTree(t) ==
    \A n \in Subtree(t, t.root) :
        /\ \A m \in Subtree(t, t.nodes[n].left) : t.nodes[m].key < t.nodes[n].key
        /\ \A m \in Subtree(t, t.nodes[n].right) : t.nodes[m].key > t.nodes[n].key

\* No node's priority is lower than its parent's.
IsMinHeap(t) ==
    \A n \in Subtree(t, t.root) :
        \A c \in {t.nodes[n].left, t.nodes[n].right} \ {Nil} :
            t.nodes[c].priority >= t.nodes[n].priority

\* Every child refers to its actual parent and the root to none.
ParentsRight(t) ==
    /\ t.root /= Nil => t.nodes[t.root].parent = Nil
    /\ \A n \in Subtree(t, t.root) :
           \A c \in {t.nodes[n].left, t.nodes[n].right} \ {Nil} :
               t.nodes[c].parent = n

\* The keys of the tree after a call, from the keys before it.
KeysAfter ==
    CASE last'.op.name = "Insert" /\ last'.err = NoErr ->
             KeysOf(treap) \cup {last'.op.value}
      [] last'.op.name = "Remove" -> KeysOf(treap) \ {last'.op.value}
      [] last'.op.name = "Top" /\ last'.err = NoErr -> KeysOf(treap) \ {last'.ret}
      [] OTHER -> KeysOf(treap)

\* C23: after any sequence of Insert (of keys that are not in the tree),
\* Remove, Update and Top calls the tree is a binary search tree on the keys
\* and a min-heap on the priorities, every child refers to its actual parent
\* and the root to none, and the keys of the tree are the inserted keys
\* without those removed by Remove or returned by Top: a Remove reports true
\* exactly when the key was in the tree and Top returns a key of the tree.
C23_TreapShape ==
    /\ [](IsSearchTree(treap) /\ IsMinHeap(treap) /\ ParentsRight(treap))
    /\ [][ /\ KeysOf(treap') = KeysAfter
           /\ last'.op.name = "Remove" => (last'.ret <=> last'.op.value \in KeysOf(treap))
           /\ (last'.op.name = "Top" /\ last'.err = NoErr) => last'.ret \in KeysOf(treap)
           /\ (last'.op.name = "Top" /\ last'.err /= NoErr) => KeysOf(treap) = {} ]_vars

\* A Top call has taken the root out of a tree of four keys, and the three
\* keys left hang on both sides of the new root.
C23_Witness ==
    /\ last.op.name = "Top"
    /\ last.err = NoErr
    /\ Cardinality(KeysOf(treap)) >= 3
    /\ last.ret \notin KeysOf(treap)
    /\ treap.nodes[treap.root].left /= Nil
    /\ treap.nodes[treap.root].right /= Nil

====
